---- MODULE Spec2Model ----
(***************************************************************************)
(* BufferPacker<SIZE> (include/BufferPacker.h): a fixed-capacity byte      *)
(* buffer with a cursor and a three-valued mode.  Bytes are naturals       *)
(* 0..255, a value of type T is the sequence of its sizeof(T) bytes (the   *)
(* object representation memcpy copies), and offsets are 0-based as in     *)
(* the source while sequences are 1-based.                                 *)
(***************************************************************************)
EXTENDS Naturals, Sequences, FiniteSets

\* ------------------------------------------------------------------ bounds
\* largest SIZE template argument of the instance under arbitrary use
MaxSIZE == 3
\* largest SIZE / DEST_SIZE of the pack -> copy -> unpack program
MaxRTSIZE == 7
\* longest list of values the pack -> copy -> unpack program packs
MaxVals == 3

\* ------------------------------------------------------------ enum Mode
PACK == "PACK"
UNPACK == "UNPACK"
FAILURE == "FAILURE"

\* sizeof(T) of the types the examples pack: uint8_t, uint16_t, float, int64_t
TypeSizes == {1, 2, 4, 8}

\* T value{}: the value-initialised (all zero bytes) object of n bytes
Zero(n) == [i \in 1..n |-> 0]

\* the b-th distinct value of an n-byte type, as its bytes
Val(n, b) == [i \in 1..n |-> 16 * b + i]

\* two distinct values of every type, two distinct contents of every source array
Seeds == {1, 2}

Values(n) == {Val(n, b) : b \in Seeds}

\* the s-th distinct source array of len bytes
Src(len, s) == [i \in 1..len |-> 100 * s + i]

\* a caller's destination array before the call
DestInit(len) == [i \in 1..len |-> 90 + i]

\* memcpy(&dst[dstOff], &src[srcOff], n)
Memcpy(dst, dstOff, src, srcOff, n) ==
    [i \in 1..Len(dst) |->
        IF i > dstOff /\ i <= dstOff + n THEN src[srcOff + (i - dstOff)] ELSE dst[i]]

\* the n bytes at &buf[off]
Bytes(buf, off, n) == [i \in 1..n |-> buf[off + i]]

\* ------------------------------------------------------- the operations
\* BufferPacker() with the data size starting at 0 instead of SIZE
BufferPacker_EmptySize(size) ==
    [SIZE |-> size, m_Buffer |-> Zero(size), m_DataSize |-> 0,
     m_Offset |-> 0, m_Mode |-> PACK]

\* BufferPacker(): m_Buffer = {}, m_DataSize(SIZE), m_Offset(0), m_Mode(PACK)
BufferPacker(size) ==
    [SIZE |-> size, m_Buffer |-> Zero(size), m_DataSize |-> size,
     m_Offset |-> 0, m_Mode |-> PACK]

\* BufferPacker(src) copying what fits before it checks the size
BufferPackerSrc_CopyFirst(size, src) ==
    LET k == IF Len(src) > size THEN size ELSE Len(src)
    IN [SIZE |-> size, m_Buffer |-> Memcpy(Zero(size), 0, src, 0, k),
        m_DataSize |-> Len(src), m_Offset |-> 0,
        m_Mode |-> IF Len(src) > size THEN FAILURE ELSE UNPACK]

\* BufferPacker(src, srcSize) and BufferPacker(src[SRC_SIZE])
BufferPackerSrc(size, src) ==
    IF Len(src) > size
    THEN [SIZE |-> size, m_Buffer |-> Zero(size), m_DataSize |-> Len(src),
          m_Offset |-> 0, m_Mode |-> FAILURE]
    ELSE [SIZE |-> size, m_Buffer |-> Memcpy(Zero(size), 0, src, 0, Len(src)),
          m_DataSize |-> Len(src), m_Offset |-> 0, m_Mode |-> UNPACK]

\* explicit operator bool() const
operatorBool(p) == p.m_Mode # FAILURE

\* hasFailed() returning what its name says: true in FAILURE mode
hasFailed_Inverted(p) == p.m_Mode = FAILURE

\* bool hasFailed() const
hasFailed(p) == p.m_Mode # FAILURE

\* pack() writing every value at the start of the buffer
pack_AtZero(p, value) ==
    IF p.m_Mode # PACK THEN p
    ELSE IF p.m_Offset + Len(value) > p.SIZE
    THEN [p EXCEPT !.m_Mode = FAILURE]
    ELSE LET off == p.m_Offset + Len(value)
         IN [p EXCEPT !.m_Buffer = Memcpy(p.m_Buffer, 0, value, 0, Len(value)),
                      !.m_Offset = off,
                      !.m_DataSize = IF off > p.m_DataSize THEN off ELSE p.m_DataSize]

\* pack() returning early in UNPACK mode only, so that a failed packer packs again
pack_IgnoresFailure(p, value) ==
    IF p.m_Mode = UNPACK THEN p
    ELSE IF p.m_Offset + Len(value) > p.SIZE
    THEN [p EXCEPT !.m_Mode = FAILURE]
    ELSE LET off == p.m_Offset + Len(value)
         IN [p EXCEPT !.m_Buffer = Memcpy(p.m_Buffer, p.m_Offset, value, 0, Len(value)),
                      !.m_Offset = off,
                      !.m_DataSize = IF off > p.m_DataSize THEN off ELSE p.m_DataSize]

\* pack() counting the rejected value's bytes into the data size
pack_GrowsOnOverflow(p, value) ==
    IF p.m_Mode # PACK THEN p
    ELSE IF p.m_Offset + Len(value) > p.SIZE
    THEN [p EXCEPT !.m_Mode = FAILURE, !.m_DataSize = p.m_Offset + Len(value)]
    ELSE LET off == p.m_Offset + Len(value)
         IN [p EXCEPT !.m_Buffer = Memcpy(p.m_Buffer, p.m_Offset, value, 0, Len(value)),
                      !.m_Offset = off,
                      !.m_DataSize = IF off > p.m_DataSize THEN off ELSE p.m_DataSize]

\* pack() without the update of the data size
pack_NoSizeUpdate(p, value) ==
    IF p.m_Mode # PACK THEN p
    ELSE IF p.m_Offset + Len(value) > p.SIZE
    THEN [p EXCEPT !.m_Mode = FAILURE]
    ELSE [p EXCEPT !.m_Buffer = Memcpy(p.m_Buffer, p.m_Offset, value, 0, Len(value)),
                   !.m_Offset = p.m_Offset + Len(value)]

\* pack() advancing the cursor before it copies the value
pack_AdvanceFirst(p, value) ==
    IF p.m_Mode # PACK THEN p
    ELSE IF p.m_Offset + Len(value) > p.SIZE
    THEN [p EXCEPT !.m_Mode = FAILURE]
    ELSE LET off == p.m_Offset + Len(value)
         IN [p EXCEPT !.m_Buffer = Memcpy(p.m_Buffer, off, value, 0, Len(value)),
                      !.m_Offset = off,
                      !.m_DataSize = IF off > p.m_DataSize THEN off ELSE p.m_DataSize]

\* pack() checking the cursor alone, without the size of the value
pack_ChecksOffsetOnly(p, value) ==
    IF p.m_Mode # PACK THEN p
    ELSE IF p.m_Offset > p.SIZE
    THEN [p EXCEPT !.m_Mode = FAILURE]
    ELSE LET off == p.m_Offset + Len(value)
         IN [p EXCEPT !.m_Buffer = Memcpy(p.m_Buffer, p.m_Offset, value, 0, Len(value)),
                      !.m_Offset = off,
                      !.m_DataSize = IF off > p.m_DataSize THEN off ELSE p.m_DataSize]

\* void pack(T value)
pack(p, value) ==
    IF p.m_Mode # PACK THEN p
    ELSE IF p.m_Offset + Len(value) > p.SIZE
    THEN [p EXCEPT !.m_Mode = FAILURE]
    ELSE LET off == p.m_Offset + Len(value)
         IN [p EXCEPT !.m_Buffer = Memcpy(p.m_Buffer, p.m_Offset, value, 0, Len(value)),
                      !.m_Offset = off,
                      !.m_DataSize = IF off > p.m_DataSize THEN off ELSE p.m_DataSize]

\* unpack() returning early in FAILURE mode only, so that a packer unpacks
unpack_NoModeCheck(p, n) ==
    IF p.m_Mode = FAILURE THEN [p |-> p, value |-> Zero(n)]
    ELSE IF p.m_Offset + n > p.m_DataSize
    THEN [p |-> [p EXCEPT !.m_Mode = FAILURE], value |-> Zero(n)]
    ELSE [p |-> [p EXCEPT !.m_Offset = p.m_Offset + n],
          value |-> Bytes(p.m_Buffer, p.m_Offset, n)]

\* T unpack(): the instance afterwards and the value returned
unpack(p, n) ==
    IF p.m_Mode # UNPACK THEN [p |-> p, value |-> Zero(n)]
    ELSE IF p.m_Offset + n > p.m_DataSize
    THEN [p |-> [p EXCEPT !.m_Mode = FAILURE], value |-> Zero(n)]
    ELSE [p |-> [p EXCEPT !.m_Offset = p.m_Offset + n],
          value |-> Bytes(p.m_Buffer, p.m_Offset, n)]

\* skip() without the overread check
skip_NoCheck(p, n) ==
    IF p.m_Mode # UNPACK THEN p ELSE [p EXCEPT !.m_Offset = p.m_Offset + n]

\* void skip()
skip(p, n) ==
    IF p.m_Mode # UNPACK THEN p
    ELSE IF p.m_Offset + n > p.m_DataSize
    THEN [p EXCEPT !.m_Mode = FAILURE]
    ELSE [p EXCEPT !.m_Offset = p.m_Offset + n]

\* seek() advancing the cursor as unpack() does
seek_Advances(p, n) ==
    IF p.m_Mode # UNPACK THEN [p |-> p, value |-> Zero(n)]
    ELSE IF p.m_Offset + n > p.m_DataSize
    THEN [p |-> [p EXCEPT !.m_Mode = FAILURE], value |-> Zero(n)]
    ELSE [p |-> [p EXCEPT !.m_Offset = p.m_Offset + n],
          value |-> Bytes(p.m_Buffer, p.m_Offset, n)]

\* T seek(): the instance afterwards and the value returned
seek(p, n) ==
    IF p.m_Mode # UNPACK THEN [p |-> p, value |-> Zero(n)]
    ELSE IF p.m_Offset + n > p.m_DataSize
    THEN [p |-> [p EXCEPT !.m_Mode = FAILURE], value |-> Zero(n)]
    ELSE [p |-> p, value |-> Bytes(p.m_Buffer, p.m_Offset, n)]

\* deepCopyTo() without the early return in FAILURE mode
deepCopyTo_NoFailureCheck(p, d) ==
    IF p.m_DataSize > Len(d)
    THEN [p |-> [p EXCEPT !.m_Mode = FAILURE], dest |-> d]
    ELSE [p |-> p, dest |-> Memcpy(d, 0, p.m_Buffer, 0, p.m_Offset)]

\* deepCopyTo() copying what fits before it checks the destination's size
deepCopyTo_CopyFirst(p, d) ==
    IF p.m_Mode = FAILURE THEN [p |-> p, dest |-> d]
    ELSE IF p.m_DataSize > Len(d)
    THEN [p |-> [p EXCEPT !.m_Mode = FAILURE], dest |-> Memcpy(d, 0, p.m_Buffer, 0, p.m_Offset)]
    ELSE [p |-> p, dest |-> Memcpy(d, 0, p.m_Buffer, 0, p.m_Offset)]

\* deepCopyTo() copying m_DataSize bytes instead of m_Offset bytes
deepCopyTo_CopiesDataSize(p, d) ==
    IF p.m_Mode = FAILURE THEN [p |-> p, dest |-> d]
    ELSE IF p.m_DataSize > Len(d)
    THEN [p |-> [p EXCEPT !.m_Mode = FAILURE], dest |-> d]
    ELSE [p |-> p, dest |-> Memcpy(d, 0, p.m_Buffer, 0, p.m_DataSize)]

\* deepCopyTo() checking the destination's size against m_Offset, not m_DataSize
deepCopyTo_ChecksOffset(p, d) ==
    IF p.m_Mode = FAILURE THEN [p |-> p, dest |-> d]
    ELSE IF p.m_Offset > Len(d)
    THEN [p |-> [p EXCEPT !.m_Mode = FAILURE], dest |-> d]
    ELSE [p |-> p, dest |-> Memcpy(d, 0, p.m_Buffer, 0, p.m_Offset)]

\* void deepCopyTo(uint8_t (&dest)[DEST_SIZE]): the instance and dest afterwards
deepCopyTo(p, d) ==
    IF p.m_Mode = FAILURE THEN [p |-> p, dest |-> d]
    ELSE IF p.m_DataSize > Len(d)
    THEN [p |-> [p EXCEPT !.m_Mode = FAILURE], dest |-> d]
    ELSE [p |-> p, dest |-> Memcpy(d, 0, p.m_Buffer, 0, p.m_Offset)]

\* size_t getBufferSize() const
getBufferSize(p) == p.m_DataSize

\* reset(bool) without m_Offset = 0
reset_KeepsOffset(p, clearBuffer) ==
    [p EXCEPT !.m_DataSize = 0, !.m_Mode = PACK,
              !.m_Buffer = IF clearBuffer THEN Zero(p.SIZE) ELSE p.m_Buffer]

\* reset(bool) without m_DataSize = 0
reset_KeepsDataSize(p, clearBuffer) ==
    [p EXCEPT !.m_Offset = 0, !.m_Mode = PACK,
              !.m_Buffer = IF clearBuffer THEN Zero(p.SIZE) ELSE p.m_Buffer]

\* void reset(const bool clearBuffer)
reset(p, clearBuffer) ==
    [p EXCEPT !.m_Offset = 0, !.m_DataSize = 0, !.m_Mode = PACK,
              !.m_Buffer = IF clearBuffer THEN Zero(p.SIZE) ELSE p.m_Buffer]

\* reset(src) without the memset before the copy
resetSrc_NoClear(p, src) ==
    IF Len(src) > p.SIZE
    THEN [p EXCEPT !.m_Mode = FAILURE]
    ELSE [p EXCEPT !.m_Offset = 0, !.m_DataSize = Len(src), !.m_Mode = UNPACK,
                   !.m_Buffer = Memcpy(p.m_Buffer, 0, src, 0, Len(src))]

\* reset(src) assigning the cursor and the data size before it checks the size
resetSrc_AssignsFirst(p, src) ==
    IF Len(src) > p.SIZE
    THEN [p EXCEPT !.m_Offset = 0, !.m_DataSize = Len(src), !.m_Mode = FAILURE]
    ELSE [p EXCEPT !.m_Offset = 0, !.m_DataSize = Len(src), !.m_Mode = UNPACK,
                   !.m_Buffer = Memcpy(Zero(p.SIZE), 0, src, 0, Len(src))]

\* void reset(uint8_t (&src)[SRC_SIZE])
resetSrc(p, src) ==
    IF Len(src) > p.SIZE
    THEN [p EXCEPT !.m_Mode = FAILURE]
    ELSE [p EXCEPT !.m_Offset = 0, !.m_DataSize = Len(src), !.m_Mode = UNPACK,
                   !.m_Buffer = Memcpy(Zero(p.SIZE), 0, src, 0, Len(src))]

\* getOwnedHeapBuffer() copying m_Offset bytes instead of m_DataSize bytes
getOwnedHeapBuffer_CopiesOffset(p) ==
    IF p.m_Mode = FAILURE
    THEN [null |-> TRUE, bytes |-> <<>>]
    ELSE [null |-> FALSE, bytes |-> Bytes(p.m_Buffer, 0, p.m_Offset)]

\* uint8_t* getOwnedHeapBuffer() const: null, or the bytes of the new array
getOwnedHeapBuffer(p) ==
    IF p.m_Mode = FAILURE
    THEN [null |-> TRUE, bytes |-> <<>>]
    ELSE [null |-> FALSE, bytes |-> Bytes(p.m_Buffer, 0, p.m_DataSize)]

\* ------------------------------------------------------------- the state
VARIABLES
    packer,        \* the instance: SIZE, m_Buffer, m_DataSize, m_Offset, m_Mode
    dest,          \* the caller's array after the last call, when that was deepCopyTo
    ret,           \* what the last call returned
    op,            \* the last call: its name, its arguments, m_Mode before it
    hist,          \* how the instance was last (re)initialised, bytes packed since
    pc,            \* position of the pack -> copy -> unpack program
    packValues,    \* the values that program packs
    unpacker,      \* its second instance
    unpackValues   \* the values it has unpacked

vars == <<packer, dest, ret, op, hist, pc, packValues, unpacker, unpackValues>>

rtVars == <<pc, packValues, unpacker, unpackValues>>

\* a call's description
Call(name, n, arg, clear, mode) ==
    [name |-> name, n |-> n, arg |-> arg, clear |-> clear, mode |-> mode]

\* a call's result: the bytes of a returned value or array, a null pointer, a
\* bool, a size_t
Ret(bytes, null, flag, size) == [bytes |-> bytes, null |-> null, flag |-> flag, size |-> size]

Void == Ret(<<>>, FALSE, FALSE, 0)

Hist(init, srcLen, packed) == [init |-> init, srcLen |-> srcLen, packed |-> packed]

\* the source arrays a caller hands to an instance of capacity size
Sources(size) == {Src(len, s) : len \in 0..(size + 1), s \in Seeds}

NoPacker == BufferPacker(0)

\* where the pack -> copy -> unpack program stands
At(step, i) == [step |-> step, i |-> i]

\* the instance is constructed, empty or from a source
Init ==
    /\ \E size \in 1..MaxSIZE :
          \/ /\ packer = BufferPacker(size)
             /\ op = Call("BufferPacker", 0, <<>>, FALSE, "none")
             /\ hist = Hist("BufferPacker", 0, <<>>)
          \/ \E src \in Sources(size) :
                /\ packer = BufferPackerSrc(size, src)
                /\ op = Call("BufferPackerSrc", Len(src), src, FALSE, "none")
                /\ hist = Hist("BufferPackerSrc", Len(src), <<>>)
    /\ dest = <<>>
    /\ ret = Void
    /\ pc = At("free", 0)
    /\ packValues = <<>>
    /\ unpacker = NoPacker
    /\ unpackValues = <<>>

Pack ==
    \E n \in TypeSizes : \E value \in Values(n) :
        /\ packer' = pack(packer, value)
        /\ op' = Call("pack", n, value, FALSE, packer.m_Mode)
        /\ ret' = Void
        /\ hist' = IF packer'.m_Offset # packer.m_Offset
                   THEN [hist EXCEPT !.packed = hist.packed \o value] ELSE hist
        /\ dest' = <<>>
        /\ UNCHANGED rtVars

Unpack ==
    \E n \in TypeSizes :
        /\ packer' = unpack(packer, n).p
        /\ ret' = Ret(unpack(packer, n).value, FALSE, FALSE, 0)
        /\ op' = Call("unpack", n, <<>>, FALSE, packer.m_Mode)
        /\ dest' = <<>>
        /\ UNCHANGED <<hist, rtVars>>

Skip ==
    \E n \in TypeSizes :
        /\ packer' = skip(packer, n)
        /\ ret' = Void
        /\ op' = Call("skip", n, <<>>, FALSE, packer.m_Mode)
        /\ dest' = <<>>
        /\ UNCHANGED <<hist, rtVars>>

Seek ==
    \E n \in TypeSizes :
        /\ packer' = seek(packer, n).p
        /\ ret' = Ret(seek(packer, n).value, FALSE, FALSE, 0)
        /\ op' = Call("seek", n, <<>>, FALSE, packer.m_Mode)
        /\ dest' = <<>>
        /\ UNCHANGED <<hist, rtVars>>

DeepCopyTo ==
    \E n \in 1..(packer.SIZE + 1) :
        /\ packer' = deepCopyTo(packer, DestInit(n)).p
        /\ dest' = deepCopyTo(packer, DestInit(n)).dest
        /\ ret' = Void
        /\ op' = Call("deepCopyTo", n, DestInit(n), FALSE, packer.m_Mode)
        /\ UNCHANGED <<hist, rtVars>>

GetOwnedHeapBuffer ==
    /\ ret' = Ret(getOwnedHeapBuffer(packer).bytes, getOwnedHeapBuffer(packer).null, FALSE, 0)
    /\ op' = Call("getOwnedHeapBuffer", 0, <<>>, FALSE, packer.m_Mode)
    /\ dest' = <<>>
    /\ UNCHANGED <<packer, hist, rtVars>>

GetBufferSize ==
    /\ ret' = Ret(<<>>, FALSE, FALSE, getBufferSize(packer))
    /\ op' = Call("getBufferSize", 0, <<>>, FALSE, packer.m_Mode)
    /\ dest' = <<>>
    /\ UNCHANGED <<packer, hist, rtVars>>

OperatorBool ==
    /\ ret' = Ret(<<>>, FALSE, operatorBool(packer), 0)
    /\ op' = Call("operatorBool", 0, <<>>, FALSE, packer.m_Mode)
    /\ dest' = <<>>
    /\ UNCHANGED <<packer, hist, rtVars>>

HasFailed ==
    /\ ret' = Ret(<<>>, FALSE, hasFailed(packer), 0)
    /\ op' = Call("hasFailed", 0, <<>>, FALSE, packer.m_Mode)
    /\ dest' = <<>>
    /\ UNCHANGED <<packer, hist, rtVars>>

Reset ==
    \E clearBuffer \in BOOLEAN :
        /\ packer' = reset(packer, clearBuffer)
        /\ ret' = Void
        /\ op' = Call("reset", 0, <<>>, clearBuffer, packer.m_Mode)
        /\ hist' = Hist("reset", 0, <<>>)
        /\ dest' = <<>>
        /\ UNCHANGED rtVars

ResetSrc ==
    \E src \in Sources(packer.SIZE) :
        /\ Len(src) >= 1
        /\ packer' = resetSrc(packer, src)
        /\ ret' = Void
        /\ op' = Call("resetSrc", Len(src), src, FALSE, packer.m_Mode)
        /\ hist' = IF Len(src) > packer.SIZE THEN hist ELSE Hist("resetSrc", Len(src), <<>>)
        /\ dest' = <<>>
        /\ UNCHANGED rtVars

Next ==
    \/ Pack
    \/ Unpack
    \/ Skip
    \/ Seek
    \/ DeepCopyTo
    \/ GetOwnedHeapBuffer
    \/ GetBufferSize
    \/ OperatorBool
    \/ HasFailed
    \/ Reset
    \/ ResetSrc

Spec == Init /\ [][Next]_vars

\* --------------------------------------------- pack -> copy -> unpack
\* defaultPackingExample / resetValuesExample for any SIZE, any DEST_SIZE and
\* any list of values: a packer packs packValues in order (after an optional
\* reset), deepCopyTo fills dest, an unpacker is constructed from dest and
\* unpacks the same types in the same order.
\* the lists of values to pack: the k-th value is the k-th distinct value of its type
ValueLists ==
    UNION {{[k \in 1..len |-> Val(sz[k], k)] : sz \in [1..len -> TypeSizes]} : len \in 1..MaxVals}

InitRT ==
    /\ \E size \in 1..MaxRTSIZE : packer = BufferPacker(size)
    /\ packValues \in ValueLists
    /\ pc = At("start", 0)
    /\ dest = <<>>
    /\ unpacker = NoPacker
    /\ unpackValues = <<>>
    /\ ret = Void
    /\ op = Call("BufferPacker", 0, <<>>, FALSE, "none")
    /\ hist = Hist("BufferPacker", 0, <<>>)

\* packer.reset(clearBuffer) before packing, or not
RTReset ==
    /\ pc.step = "start"
    /\ \/ \E clearBuffer \in BOOLEAN :
             /\ packer' = reset(packer, clearBuffer)
             /\ hist' = Hist("reset", 0, <<>>)
       \/ UNCHANGED <<packer, hist>>
    /\ pc' = At("pack", 0)
    /\ UNCHANGED <<dest, ret, op, packValues, unpacker, unpackValues>>

\* packer.pack(packValue_i)
RTPack ==
    /\ pc.step = "pack"
    /\ pc.i < Len(packValues)
    /\ packer' = pack(packer, packValues[pc.i + 1])
    /\ pc' = At("pack", pc.i + 1)
    /\ UNCHANGED <<dest, ret, op, hist, packValues, unpacker, unpackValues>>

\* packer.deepCopyTo(packBuffer)
RTDeepCopyTo ==
    /\ pc.step = "pack"
    /\ pc.i = Len(packValues)
    /\ \E n \in 1..MaxRTSIZE :
          /\ packer' = deepCopyTo(packer, DestInit(n)).p
          /\ dest' = deepCopyTo(packer, DestInit(n)).dest
    /\ pc' = At("copied", 0)
    /\ UNCHANGED <<ret, op, hist, packValues, unpacker, unpackValues>>

\* auto unpacker = BufferPacker(packBuffer)
RTConstruct ==
    /\ pc.step = "copied"
    /\ \E size \in 1..MaxRTSIZE : unpacker' = BufferPackerSrc(size, dest)
    /\ pc' = At("unpack", 0)
    /\ UNCHANGED <<packer, dest, ret, op, hist, packValues, unpackValues>>

\* unpackValue_i = unpacker.unpack<T_i>()
RTUnpack ==
    /\ pc.step = "unpack"
    /\ pc.i < Len(packValues)
    /\ unpacker' = unpack(unpacker, Len(packValues[pc.i + 1])).p
    /\ unpackValues' = Append(unpackValues, unpack(unpacker, Len(packValues[pc.i + 1])).value)
    /\ pc' = At(IF pc.i + 1 = Len(packValues) THEN "done" ELSE "unpack", pc.i + 1)
    /\ UNCHANGED <<packer, dest, ret, op, hist, packValues>>

NextRT ==
    \/ RTReset
    \/ RTPack
    \/ RTDeepCopyTo
    \/ RTConstruct
    \/ RTUnpack

SpecRT == InitRT /\ [][NextRT]_vars

\* ----------------------------------------------------------- properties
\* the bytes of a list of values, one after the other
RECURSIVE Concat(_)
Concat(vals) == IF vals = <<>> THEN <<>> ELSE Head(vals) \o Concat(Tail(vals))

\* the sizeof of every value of a list
SizesOf(vals) == [k \in 1..Len(vals) |-> Len(vals[k])]

Resets == {"reset", "resetSrc"}

\* the pack -> copy -> unpack program ran on values that fit the packer and a
\* destination that holds the packer's data size
RTFits ==
    /\ pc.step = "done"
    /\ Len(Concat(packValues)) <= packer.SIZE
    /\ Len(dest) >= packer.m_DataSize

\* C1 as stated: whenever the values fit the packer and the destination holds
\* logical_size bytes, the second packer returns exactly the packed values and
\* neither packer has failed, whatever the second packer's capacity.
C1_AsStated ==
    RTFits => /\ unpackValues = packValues
              /\ packer.m_Mode # FAILURE
              /\ unpacker.m_Mode # FAILURE

\* C1 (sequential round trip), amended: values v1..vn whose sizes sum to at
\* most the capacity, packed in order into an empty packer, exported by
\* deepCopyTo into a destination of at least logical_size bytes and of at most
\* the second packer's capacity, and unpacked with the same sizes in the same
\* order from a second packer seeded with that destination, come back as
\* exactly v1..vn, and neither packer is in FAILURE mode at the end.
C1_RoundTrip ==
    RTFits /\ Len(dest) <= unpacker.SIZE
        => /\ unpackValues = packValues
           /\ packer.m_Mode # FAILURE
           /\ unpacker.m_Mode # FAILURE

\* three values of two different sizes went through a reset packer into a
\* destination smaller than the packer and came back
C1_Witness ==
    /\ RTFits
    /\ Len(dest) <= unpacker.SIZE
    /\ SizesOf(packValues) = <<1, 4, 1>>
    /\ hist.init = "reset"
    /\ Len(dest) < packer.SIZE
    /\ unpackValues = packValues

\* C2 (overflow latch): a pack in PACK mode of a value with m_Offset +
\* sizeof(T) > SIZE sets FAILURE and changes neither m_Offset, m_DataSize nor
\* m_Buffer; a pack or unpack in FAILURE mode changes nothing of the instance.
C2_OverflowLatch ==
    [][ /\ (op'.name = "pack" /\ packer.m_Mode = PACK
               /\ packer.m_Offset + op'.n > packer.SIZE)
           => packer' = [packer EXCEPT !.m_Mode = FAILURE]
        /\ (packer.m_Mode = FAILURE /\ op'.name \in {"pack", "unpack"})
           => packer' = packer ]_vars

\* a pack overflowed a packer that already held packed bytes
C2_Witness ==
    /\ op.name = "pack"
    /\ op.mode = PACK
    /\ packer.m_Offset > 0
    /\ packer.m_Offset + op.n > packer.SIZE
    /\ packer.m_Mode = FAILURE

\* C3 (overread latch): unpack, skip and seek in UNPACK mode of a type with
\* m_Offset + sizeof(T) > m_DataSize set FAILURE, return the all-zero value
\* (unpack and seek) and change neither m_Offset, m_DataSize nor m_Buffer.
C3_OverreadLatch ==
    [][ (op'.name \in {"unpack", "skip", "seek"} /\ packer.m_Mode = UNPACK
            /\ packer.m_Offset + op'.n > packer.m_DataSize)
        => /\ packer' = [packer EXCEPT !.m_Mode = FAILURE]
           /\ op'.name # "skip" => ret'.bytes = Zero(op'.n) ]_vars

\* capacity 1, a source of one byte, unpack of an 8-byte type: FAILURE, 0, cursor 0
C3_Witness ==
    /\ packer.SIZE = 1
    /\ hist.init = "BufferPackerSrc"
    /\ hist.srcLen = 1
    /\ op.name = "unpack"
    /\ op.n = 8
    /\ op.mode = UNPACK
    /\ packer.m_Mode = FAILURE
    /\ packer.m_Offset = 0
    /\ packer.m_Buffer # Zero(1)
    /\ ret.bytes = Zero(8)

\* C4 (FAILURE is absorbing): in FAILURE mode every call but the two resets
\* leaves the instance as it is, unpack and seek return the all-zero value,
\* deepCopyTo leaves the destination as the caller handed it over and
\* getOwnedHeapBuffer returns nullptr; the mode leaves FAILURE only in a reset.
C4_FailedAbsorbing ==
    [][ /\ (packer.m_Mode = FAILURE /\ op'.name \notin Resets)
           => /\ packer' = packer
              /\ op'.name \in {"unpack", "seek"} => ret'.bytes = Zero(op'.n)
              /\ op'.name = "deepCopyTo" => dest' = op'.arg
              /\ op'.name = "getOwnedHeapBuffer" => ret'.null
        /\ (packer.m_Mode = FAILURE /\ packer'.m_Mode # FAILURE)
           => op'.name \in Resets ]_vars

\* deepCopyTo on a failed packer that holds packed bytes and whose data would
\* fit the destination copied nothing
C4_Witness ==
    /\ op.name = "deepCopyTo"
    /\ op.mode = FAILURE
    /\ packer.m_Mode = FAILURE
    /\ packer.m_Offset > 0
    /\ packer.m_DataSize <= op.n
    /\ dest = op.arg

\* C5 as stated: after either reset on a failed instance, with a source of any
\* length, the mode is not FAILURE and the cursor is 0.
C5_AsStated ==
    (op.name \in Resets /\ op.mode = FAILURE)
        => packer.m_Mode # FAILURE /\ packer.m_Offset = 0

\* C5 (reset clears failure), amended: on a failed instance reset(clearBuffer)
\* with either flag, and reset(src) with a source of at most SIZE bytes, leave
\* a mode other than FAILURE and m_Offset = 0; reset(src) with a source longer
\* than SIZE leaves the instance in FAILURE mode.
C5_ResetClearsFailure ==
    /\ (op.mode = FAILURE /\ (op.name = "reset" \/ (op.name = "resetSrc" /\ op.n <= packer.SIZE)))
       => packer.m_Mode # FAILURE /\ packer.m_Offset = 0
    /\ (op.mode = FAILURE /\ op.name = "resetSrc" /\ op.n > packer.SIZE)
       => packer.m_Mode = FAILURE

\* a failed instance was reset for packing without clearing its buffer
C5_Witness ==
    /\ op.name = "reset"
    /\ ~op.clear
    /\ op.mode = FAILURE
    /\ packer.m_Buffer # Zero(packer.SIZE)
    /\ packer.m_Mode = PACK
    /\ packer.m_Offset = 0

\* C6 as stated: right after BufferPacker() the mode is PACK, logical_size and
\* cursor are 0 and every byte of the storage is 0.
C6_AsStated ==
    op.name = "BufferPacker"
        => /\ packer.m_Mode = PACK
           /\ packer.m_DataSize = 0
           /\ packer.m_Offset = 0
           /\ packer.m_Buffer = Zero(packer.SIZE)

\* C6 (empty constructor), amended: right after BufferPacker() the mode is
\* PACK, m_Offset is 0, every byte of m_Buffer is 0 and m_DataSize is SIZE,
\* the capacity, not 0.
C6_EmptyConstructor ==
    op.name = "BufferPacker"
        => /\ packer.m_Mode = PACK
           /\ packer.m_DataSize = packer.SIZE
           /\ packer.m_Offset = 0
           /\ packer.m_Buffer = Zero(packer.SIZE)

\* a packer of three bytes right after BufferPacker()
C6_Witness ==
    /\ op.name = "BufferPacker"
    /\ packer.SIZE = 3
    /\ hist.packed = <<>>

\* C7 (construction guard): right after BufferPacker(src), a source longer
\* than SIZE leaves FAILURE mode and an all-zero m_Buffer; a source of at most
\* SIZE bytes leaves UNPACK mode, m_DataSize = srcSize, m_Offset = 0 and the
\* source in m_Buffer[0..srcSize).
C7_ConstructionGuard ==
    op.name = "BufferPackerSrc"
        => IF op.n > packer.SIZE
           THEN /\ packer.m_Mode = FAILURE
                /\ packer.m_Buffer = Zero(packer.SIZE)
           ELSE /\ packer.m_Mode = UNPACK
                /\ packer.m_DataSize = op.n
                /\ packer.m_Offset = 0
                /\ Bytes(packer.m_Buffer, 0, op.n) = op.arg

\* a packer right after its construction from a source one byte too long
C7_Witness ==
    /\ op.name = "BufferPackerSrc"
    /\ op.n = packer.SIZE + 1
    /\ op.arg = Src(op.n, 2)
    /\ packer.m_Mode = FAILURE

\* C8 as stated: in every reachable state, FAILURE states and the state right
\* after any constructor included, 0 <= cursor <= logical_size <= capacity.
C8_AsStated ==
    /\ 0 <= packer.m_Offset
    /\ packer.m_Offset <= packer.m_DataSize
    /\ packer.m_DataSize <= packer.SIZE

\* the pack -> copy -> unpack program packs a 2-byte, a 4-byte and a 2-byte
\* value into a packer of 7 bytes
Capacity7 == packer.SIZE = 7 /\ SizesOf(packValues) = <<2, 4, 2>>

\* C9 as stated: after the three packs the packer is in FAILURE mode,
\* logical_size is 6 and the export yields the first 6 bytes.
C9_AsStated ==
    (Capacity7 /\ pc.step = "copied")
        => /\ packer.m_Mode = FAILURE
           /\ packer.m_DataSize = 6
           /\ Len(dest) >= 6
              => Bytes(dest, 0, 6) = packValues[1] \o packValues[2]

\* C9 (capacity 7 scenario), amended: on an empty packer of capacity 7 the
\* packs of a 2-byte and a 4-byte value succeed and the pack of a further
\* 2-byte value fails and sets FAILURE; afterwards m_Offset is 6, m_Buffer
\* starts with the 6 bytes of the first two values, m_DataSize is 7 on a newly
\* constructed packer and 6 on one emptied by reset(bool), and an export yields
\* nothing: deepCopyTo leaves the destination as it was and getOwnedHeapBuffer
\* returns nullptr.
C9_Capacity7 ==
    Capacity7
        => /\ pc = At("pack", 2) => packer.m_Mode = PACK /\ packer.m_Offset = 6
           /\ (pc = At("pack", 3) \/ pc.step \in {"copied", "unpack", "done"})
              => /\ packer.m_Mode = FAILURE
                 /\ packer.m_Offset = 6
                 /\ packer.m_DataSize = IF hist.init = "reset" THEN 6 ELSE 7
                 /\ Bytes(packer.m_Buffer, 0, 6) = packValues[1] \o packValues[2]
                 /\ getOwnedHeapBuffer(packer).null
           /\ pc.step = "copied" => dest = DestInit(Len(dest))

\* the failed packer of 7 bytes, newly constructed, was exported into 7 bytes
C9_Witness ==
    /\ Capacity7
    /\ pc.step = "copied"
    /\ hist.init = "BufferPacker"
    /\ Len(dest) = 7
    /\ packer.m_Mode = FAILURE

\* C10 as stated: in PACK mode logical_size is the number of bytes packed
\* since construction or since the last reset, which is the cursor; in UNPACK
\* mode it is the length of the source.
C10_AsStated ==
    /\ packer.m_Mode = PACK
       => /\ packer.m_DataSize = Len(hist.packed)
          /\ packer.m_DataSize = packer.m_Offset
    /\ packer.m_Mode = UNPACK => packer.m_DataSize = hist.srcLen

\* C10 (logical size), amended: in PACK mode m_Offset is the number of bytes
\* packed since construction or since the last reset; m_DataSize equals it
\* after a reset(bool), and is SIZE, whatever was packed, on an instance
\* constructed by BufferPacker() and not reset since; in UNPACK mode m_DataSize
\* is the length of the source the instance was seeded with.
C10_LogicalSize ==
    /\ packer.m_Mode = PACK
       => /\ hist.init \in {"BufferPacker", "reset"}
          /\ packer.m_Offset = Len(hist.packed)
          /\ hist.init = "reset" => packer.m_DataSize = packer.m_Offset
          /\ hist.init = "BufferPacker" => packer.m_DataSize = packer.SIZE
    /\ packer.m_Mode = UNPACK
       => /\ hist.init \in {"BufferPackerSrc", "resetSrc"}
          /\ packer.m_DataSize = hist.srcLen

\* three bytes were packed after a reset
C10_Witness ==
    /\ packer.m_Mode = PACK
    /\ hist.init = "reset"
    /\ op.name = "pack"
    /\ Len(hist.packed) = 3
    /\ packer.m_DataSize = 3

\* C11 (export overflow): deepCopyTo on an instance not in FAILURE mode whose
\* m_DataSize exceeds DEST_SIZE sets FAILURE and changes neither the
\* destination nor m_Offset, m_DataSize or m_Buffer.
C11_ExportOverflow ==
    [][ (op'.name = "deepCopyTo" /\ packer.m_Mode # FAILURE
            /\ packer.m_DataSize > op'.n)
        => /\ packer' = [packer EXCEPT !.m_Mode = FAILURE]
           /\ dest' = op'.arg ]_vars

\* a packer holding packed bytes was exported into a destination too small
\* for its data and failed
C11_Witness ==
    /\ op.name = "deepCopyTo"
    /\ op.mode = PACK
    /\ packer.m_Offset > 0
    /\ packer.m_DataSize > op.n
    /\ packer.m_Mode = FAILURE
    /\ dest = op.arg

\* C12 (export copies the cursor's bytes): deepCopyTo on an instance not in
\* FAILURE mode with m_DataSize <= DEST_SIZE leaves dest[0..m_Offset) equal to
\* m_Buffer[0..m_Offset), dest[m_Offset..DEST_SIZE) as it was, and the instance
\* unchanged; an instance just seeded from a source (m_Offset = 0) copies
\* nothing.
C12_ExportCopiesCursor ==
    [][ (op'.name = "deepCopyTo" /\ packer.m_Mode # FAILURE
            /\ packer.m_DataSize <= op'.n)
        => /\ packer' = packer
           /\ Len(dest') = op'.n
           /\ \A i \in 1..op'.n :
                 dest'[i] = IF i <= packer.m_Offset THEN packer.m_Buffer[i] ELSE op'.arg[i]
           /\ (packer.m_Mode = UNPACK /\ packer.m_Offset = 0) => dest' = op'.arg ]_vars

\* an unpacker in the middle of its data was exported: the bytes before the
\* cursor were copied, the rest of the destination kept
C12_Witness ==
    /\ op.name = "deepCopyTo"
    /\ op.mode = UNPACK
    /\ packer.m_Mode = UNPACK
    /\ packer.m_Offset = 1
    /\ packer.m_DataSize = 3
    /\ op.n = 3
    /\ dest = <<packer.m_Buffer[1], op.arg[2], op.arg[3]>>

\* C13 (export of a new packer): a packer constructed by BufferPacker(), with
\* nothing packed yet, exported by deepCopyTo into a destination of fewer than
\* SIZE bytes enters FAILURE mode and leaves the destination as it was.
C13_FreshExportFails ==
    (op.name = "deepCopyTo" /\ op.mode = PACK /\ hist.init = "BufferPacker"
        /\ hist.packed = <<>> /\ op.n < packer.SIZE)
        => /\ packer.m_Mode = FAILURE
           /\ dest = op.arg

\* a new packer of three bytes was exported into one byte
C13_Witness ==
    /\ op.name = "deepCopyTo"
    /\ op.mode = PACK
    /\ hist.init = "BufferPacker"
    /\ hist.packed = <<>>
    /\ packer.SIZE = 3
    /\ op.n = 1
    /\ packer.m_Mode = FAILURE

\* C14 (owned export): getOwnedHeapBuffer on an instance not in FAILURE mode
\* returns a new array of exactly m_DataSize bytes equal to
\* m_Buffer[0..m_DataSize), whose first m_Offset bytes in PACK mode are the
\* packed values in pack order, and on an instance in FAILURE mode returns
\* nullptr; it changes nothing of the instance.
C14_OwnedExport ==
    [][ op'.name = "getOwnedHeapBuffer"
        => /\ packer' = packer
           /\ IF packer.m_Mode = FAILURE
              THEN ret'.null /\ ret'.bytes = <<>>
              ELSE /\ ~ret'.null
                   /\ Len(ret'.bytes) = packer.m_DataSize
                   /\ \A i \in 1..packer.m_DataSize : ret'.bytes[i] = packer.m_Buffer[i]
                   /\ packer.m_Mode = PACK
                      => /\ packer.m_Offset <= Len(ret'.bytes)
                         /\ Bytes(ret'.bytes, 0, packer.m_Offset) = hist.packed ]_vars

\* a new packer of three bytes holding two packed values handed out its three
\* bytes, the packed ones first
C14_Witness ==
    /\ op.name = "getOwnedHeapBuffer"
    /\ op.mode = PACK
    /\ hist.init = "BufferPacker"
    /\ packer.SIZE = 3
    /\ hist.packed = Val(1, 1) \o Val(1, 2)
    /\ ~ret.null
    /\ ret.bytes = hist.packed \o <<0>>

\* C15 (seek idempotence): a seek in UNPACK mode of a type with m_Offset +
\* sizeof(T) <= m_DataSize returns the value unpack of that type would return
\* and changes nothing of the instance, so that any number of repeated seeks
\* return that value; and after it, skip of that type followed by unpack of
\* any type leaves the state and returns the value that unpack of the first
\* type followed by unpack of the second leaves and returns.
C15_SeekIdempotence ==
    [][ (op'.name = "seek" /\ packer.m_Mode = UNPACK
            /\ packer.m_Offset + op'.n <= packer.m_DataSize)
        => /\ packer' = packer
           /\ ret'.bytes = unpack(packer, op'.n).value
           /\ seek(packer', op'.n) = [p |-> packer, value |-> ret'.bytes]
           /\ \A m \in TypeSizes :
                 unpack(skip(packer', op'.n), m) = unpack(unpack(packer, op'.n).p, m) ]_vars

\* a seek past the first byte of a source returned the byte at the cursor and
\* left the cursor there, with a further byte to unpack behind it
C15_Witness ==
    /\ op.name = "seek"
    /\ op.mode = UNPACK
    /\ packer.m_Mode = UNPACK
    /\ packer.m_Offset = 1
    /\ op.n = 1
    /\ packer.m_DataSize = 3
    /\ ret.bytes = <<packer.m_Buffer[2]>>
    /\ ret.bytes # Zero(1)

\* C16 (mode transitions): pack in UNPACK mode and unpack, skip and seek in
\* PACK mode change nothing of the instance, unpack and seek returning the
\* all-zero value, and so do not set FAILURE; the mode changes from PACK to
\* UNPACK or from UNPACK to PACK only in a step that is a reset.
C16_ModeTransitions ==
    [][ /\ (op'.name = "pack" /\ packer.m_Mode = UNPACK) => packer' = packer
        /\ (op'.name \in {"unpack", "skip", "seek"} /\ packer.m_Mode = PACK)
           => /\ packer' = packer
              /\ op'.name # "skip" => ret'.bytes = Zero(op'.n)
        /\ (packer.m_Mode \in {PACK, UNPACK} /\ packer'.m_Mode \in {PACK, UNPACK}
               /\ packer'.m_Mode # packer.m_Mode)
           => op'.name \in Resets ]_vars

\* an unpack on a packer holding a packed byte, of a type that fits its data
\* size, returned zero and left the packer packing
C16_Witness ==
    /\ op.name = "unpack"
    /\ op.mode = PACK
    /\ packer.m_Mode = PACK
    /\ packer.m_Offset = 1
    /\ hist.packed # <<>>
    /\ op.n = 1
    /\ packer.m_Offset + op.n <= packer.m_DataSize
    /\ ret.bytes = Zero(1)

\* C17 (reset with a source that fits): reset(src) with SRC_SIZE <= SIZE, from
\* any mode and any contents, leaves UNPACK mode, m_Offset = 0, m_DataSize =
\* SRC_SIZE, the source in m_Buffer[0..SRC_SIZE) and 0 in every byte behind
\* it; the unpacks that follow return the bytes of the new source in order.
C17_ResetWithSource ==
    [][ (op'.name = "resetSrc" /\ op'.n <= packer.SIZE)
        => /\ packer' = [SIZE |-> packer.SIZE,
                         m_Buffer |-> op'.arg \o Zero(packer.SIZE - op'.n),
                         m_DataSize |-> op'.n, m_Offset |-> 0, m_Mode |-> UNPACK]
           /\ \A n \in TypeSizes, m \in TypeSizes :
                 n + m <= op'.n
                 => /\ unpack(packer', n).value = Bytes(op'.arg, 0, n)
                    /\ unpack(unpack(packer', n).p, m).value = Bytes(op'.arg, n, m) ]_vars

\* a packer that had packed was reset with a source shorter than its buffer:
\* nothing of the packed bytes is left
C17_Witness ==
    /\ op.name = "resetSrc"
    /\ op.mode = PACK
    /\ op.n = 2
    /\ packer.SIZE = 3
    /\ packer.m_Mode = UNPACK
    /\ packer.m_Buffer = op.arg \o <<0>>

\* C18 (reset with a source too long): reset(src) with SRC_SIZE > SIZE, from
\* any mode, sets FAILURE and leaves m_Buffer, m_Offset and m_DataSize as they
\* were.
C18_ResetOversized ==
    [][ (op'.name = "resetSrc" /\ op'.n > packer.SIZE)
        => packer' = [packer EXCEPT !.m_Mode = FAILURE] ]_vars

\* an unpacker in the middle of its data was reset with a source too long
C18_Witness ==
    /\ op.name = "resetSrc"
    /\ op.n > packer.SIZE
    /\ op.mode = UNPACK
    /\ packer.m_Offset > 0
    /\ packer.m_DataSize > packer.m_Offset
    /\ packer.m_Mode = FAILURE

\* C19 (reset for packing): reset(clearBuffer), from any mode, leaves PACK
\* mode, m_Offset = 0 and m_DataSize = 0, every byte of m_Buffer 0 when
\* clearBuffer is true and m_Buffer as it was when it is false; what is packed
\* after the reset, and what deepCopyTo then copies out, are the values packed
\* since the reset.
C19_ResetForPacking ==
    [][ /\ op'.name = "reset"
           => /\ packer'.m_Mode = PACK
              /\ packer'.m_Offset = 0
              /\ packer'.m_DataSize = 0
              /\ packer'.SIZE = packer.SIZE
              /\ packer'.m_Buffer = IF op'.clear THEN Zero(packer.SIZE) ELSE packer.m_Buffer
        /\ (hist'.init = "reset" /\ packer'.m_Mode = PACK)
           => /\ Bytes(packer'.m_Buffer, 0, packer'.m_Offset) = hist'.packed
              /\ op'.name = "deepCopyTo"
                 => Bytes(dest', 0, Len(hist'.packed)) = hist'.packed ]_vars

\* a buffer full of a source's bytes was reset without clearing, one value
\* was packed over it and exported: the export is the packed value alone
C19_Witness ==
    /\ op.name = "deepCopyTo"
    /\ op.mode = PACK
    /\ packer.m_Mode = PACK
    /\ hist.init = "reset"
    /\ packer.SIZE = 3
    /\ hist.packed = Val(2, 2)
    /\ packer.m_Buffer[3] = Src(3, 1)[3]
    /\ op.n = 3
    /\ dest = Val(2, 2) \o <<op.arg[3]>>

\* C20 (status query): operator bool and hasFailed return the same value, true
\* exactly when the mode is not FAILURE, in every reachable state, and a call
\* of either changes nothing of the instance.
C20_StatusQuery ==
    [][ /\ operatorBool(packer) = hasFailed(packer)
        /\ operatorBool(packer) = (packer.m_Mode # FAILURE)
        /\ op'.name \in {"operatorBool", "hasFailed"}
           => /\ packer' = packer
              /\ ret'.flag = (packer.m_Mode # FAILURE) ]_vars

\* hasFailed was called on a failed instance and returned false
C20_Witness ==
    /\ op.name = "hasFailed"
    /\ op.mode = FAILURE
    /\ packer.m_Mode = FAILURE
    /\ ~ret.flag

\* C21 (wire layout): a successful pack of a value of n bytes at cursor c
\* writes the value's bytes to m_Buffer[c..c+n), leaves every other byte of
\* m_Buffer as it was and advances m_Offset to c + n; hence, on an instance
\* that started packing at cursor 0, m_Buffer[0..m_Offset) is the bytes of the
\* values packed so far, in call order.
C21_WireLayout ==
    [][ /\ (op'.name = "pack" /\ packer.m_Mode = PACK
               /\ packer.m_Offset + op'.n <= packer.SIZE)
           => /\ packer'.m_Offset = packer.m_Offset + op'.n
              /\ packer'.m_Mode = PACK
              /\ Len(packer'.m_Buffer) = packer.SIZE
              /\ \A i \in 1..packer.SIZE :
                    packer'.m_Buffer[i] =
                        IF i > packer.m_Offset /\ i <= packer.m_Offset + op'.n
                        THEN op'.arg[i - packer.m_Offset]
                        ELSE packer.m_Buffer[i]
        /\ hist'.init \in {"BufferPacker", "reset"}
           => /\ packer'.m_Offset = Len(hist'.packed)
              /\ Bytes(packer'.m_Buffer, 0, packer'.m_Offset) = hist'.packed ]_vars

\* a second value was packed behind a first one, over the stale bytes a
\* source had left in the buffer
C21_Witness ==
    /\ op.name = "pack"
    /\ op.mode = PACK
    /\ packer.m_Mode = PACK
    /\ hist.init = "reset"
    /\ packer.SIZE = 3
    /\ op.arg = Val(1, 2)
    /\ hist.packed = Val(1, 1) \o Val(1, 2)
    /\ packer.m_Buffer = hist.packed \o <<Src(3, 2)[3]>>

\* ------------------------------------------- the memory the calls touch
\* a memcpy, memset or new[] touching n bytes from index off of an array of
\* size bytes
Access(array, size, off, n) == [array |-> array, size |-> size, off |-> off, n |-> n]

InBounds(a) == 0 <= a.off /\ a.off + a.n <= a.size

\* BufferPacker(src, srcSize): memcpy(m_Buffer, src, srcSize), past the size check
BufferPackerSrcAccesses(size, src) ==
    IF BufferPackerSrc(size, src).m_Mode = FAILURE THEN {}
    ELSE {Access("m_Buffer", size, 0, Len(src)), Access("src", Len(src), 0, Len(src))}

\* pack: memcpy(&m_Buffer[m_Offset], &value, sizeof(T)), past the checks
packAccesses(p, value) ==
    IF pack(p, value).m_Offset = p.m_Offset THEN {}
    ELSE {Access("m_Buffer", p.SIZE, p.m_Offset, Len(value))}

\* unpack: memcpy(&value, &m_Buffer[m_Offset], sizeof(T)), past the checks
unpackAccesses(p, n) ==
    IF unpack(p, n).p.m_Offset = p.m_Offset THEN {}
    ELSE {Access("m_Buffer", p.SIZE, p.m_Offset, n)}

\* seek: memcpy(&value, &m_Buffer[m_Offset], sizeof(T)), past the checks
seekAccesses(p, n) ==
    IF p.m_Mode # UNPACK \/ seek(p, n).p.m_Mode = FAILURE THEN {}
    ELSE {Access("m_Buffer", p.SIZE, p.m_Offset, n)}

\* deepCopyTo: memcpy(dest, m_Buffer, m_Offset), past the checks
deepCopyToAccesses(p, d) ==
    IF p.m_Mode = FAILURE \/ deepCopyTo(p, d).p.m_Mode = FAILURE THEN {}
    ELSE {Access("dest", Len(d), 0, p.m_Offset), Access("m_Buffer", p.SIZE, 0, p.m_Offset)}

\* reset(bool): memset(m_Buffer, 0, SIZE) when clearBuffer
resetAccesses(p, clearBuffer) ==
    IF clearBuffer THEN {Access("m_Buffer", p.SIZE, 0, p.SIZE)} ELSE {}

\* reset(src): memset(m_Buffer, 0, SIZE) and memcpy(m_Buffer, src, SRC_SIZE),
\* past the size check
resetSrcAccesses(p, src) ==
    IF resetSrc(p, src).m_Mode = FAILURE THEN {}
    ELSE {Access("m_Buffer", p.SIZE, 0, p.SIZE),
          Access("m_Buffer", p.SIZE, 0, Len(src)), Access("src", Len(src), 0, Len(src))}

\* getOwnedHeapBuffer: new uint8_t[m_DataSize] and
\* memcpy(buffer, m_Buffer, m_DataSize), past the mode check
getOwnedHeapBufferAccesses(p) ==
    IF p.m_Mode = FAILURE THEN {}
    ELSE {Access("buffer", p.m_DataSize, 0, p.m_DataSize),
          Access("m_Buffer", p.SIZE, 0, p.m_DataSize)}

\* the memory the call touches on the instance p
Accesses(p, call) ==
    CASE call.name = "BufferPackerSrc" -> BufferPackerSrcAccesses(p.SIZE, call.arg)
      [] call.name = "pack" -> packAccesses(p, call.arg)
      [] call.name = "unpack" -> unpackAccesses(p, call.n)
      [] call.name = "seek" -> seekAccesses(p, call.n)
      [] call.name = "deepCopyTo" -> deepCopyToAccesses(p, call.arg)
      [] call.name = "reset" -> resetAccesses(p, call.clear)
      [] call.name = "resetSrc" -> resetSrcAccesses(p, call.arg)
      [] call.name = "getOwnedHeapBuffer" -> getOwnedHeapBufferAccesses(p)
      [] OTHER -> {}

\* m_Offset <= m_DataSize <= SIZE
Ordered(p) == p.m_Offset <= p.m_DataSize /\ p.m_DataSize <= p.SIZE

\* C22 (bounds safety): whenever the instance is not in FAILURE mode,
\* m_Offset <= m_DataSize <= SIZE; and every memcpy, memset and allocation of
\* the constructor from a source, pack, unpack, seek, deepCopyTo,
\* getOwnedHeapBuffer and the two resets stays inside the array it touches:
\* inside m_Buffer[0..SIZE), inside the source, and, for deepCopyTo, inside
\* the DEST_SIZE bytes of the destination, the rest of which it leaves alone.
C22_BoundsSafety ==
    [][ /\ packer.m_Mode # FAILURE => Ordered(packer)
        /\ packer'.m_Mode # FAILURE => Ordered(packer')
        /\ op.name = "BufferPackerSrc" => \A a \in Accesses(packer, op) : InBounds(a)
        /\ \A a \in Accesses(packer, op') : InBounds(a)
        /\ op'.name = "deepCopyTo"
           => /\ Len(dest') = op'.n
              /\ \A i \in 1..op'.n : i > packer.m_Offset => dest'[i] = op'.arg[i] ]_vars

\* deepCopyTo filled a destination of exactly SIZE bytes from a buffer packed
\* to its last byte
C22_Witness ==
    /\ op.name = "deepCopyTo"
    /\ op.mode = PACK
    /\ packer.m_Mode = PACK
    /\ packer.SIZE = 3
    /\ packer.m_Offset = 3
    /\ packer.m_DataSize = 3
    /\ op.n = 3
    /\ dest = packer.m_Buffer
    /\ hist.packed = Val(2, 1) \o Val(1, 2)

====
